---- MODULE Spec2Model ----
(***************************************************************************)
(* SYTC frame decoder of the mmWave radar demo: MircoParser.read_exact,    *)
(* MircoParser.find_start and MircoParser.parse_frame_from_serial          *)
(* (src/demo.py) together with the pydantic models they construct          *)
(* (src/models.py).                                                        *)
(*                                                                         *)
(* The serial port is a byte source holding the bytes it will ever         *)
(* deliver (input) and a read cursor (pos).  One step of the model is one  *)
(* ser.read(...) call of the parser together with the code that runs up    *)
(* to the next ser.read(...) call or up to the return of                   *)
(* parse_frame_from_serial.  Time is counted in ticks; a read takes 0 or 1 *)
(* tick.                                                                   *)
(*                                                                         *)
(* The reader thread of SerialReader.read_loop (serial_read_thread) reads  *)
(* the same kind of source in chunks, collects them in all_data and cuts   *)
(* all_data at every EE EE pair.                                           *)
(***************************************************************************)
EXTENDS Integers, Sequences, FiniteSets, TLC

VARIABLES
    input,     \* every byte the serial source will deliver, in order
    source,    \* "prompt": reads return all requested bytes at once;
               \* "erratic": reads return any part of them, or nothing;
               \* "endless": the bytes of input over and over, never an
               \*            empty read
    pos,       \* number of bytes of input already consumed by ser.read
               \* (of the current round of input, when the source is endless)
    pc,        \* position of the caller / parser
    window,    \* find_start: the sliding window
    buf,       \* read_exact: bytes collected so far
    size,      \* read_exact: requested size
    elapsed,   \* time.time() - start of the running find_start / read_exact
    spent,     \* time since parse_frame_from_serial was entered
    hdr,       \* header_remain once read
    bodies,    \* list of MircoBody built so far
    call,      \* bookkeeping of the running invocation
    stalls,    \* deadlines the source has let pass with bytes still to deliver
    results,   \* outcome of every finished invocation, in call order
    thread,    \* position of serial_read_thread
    all_data,  \* serial_read_thread: the bytes received and not yet cut off
    frames,    \* bookkeeping: every frame serial_read_thread has cut off, in order
    data_queue \* every item serial_read_thread has put into data_queue, in order

vars == <<input, source, pos, pc, window, buf, size, elapsed, spent, hdr,
          bodies, call, stalls, results, thread, all_data, frames, data_queue>>

\* the variables of the parser and those of the reader thread
parser == <<pc, window, buf, size, elapsed, spent, hdr, bodies, call, stalls,
            results>>
reader == <<thread, all_data, frames, data_queue>>

----------------------------------------------------------------------------
(* Bounds of the exploration *)

MaxCalls == 2        \* invocations of parse_frame_from_serial per run
MaxTargets == 2      \* largest num_TLV of the frames put on the wire
MaxStalls == 1       \* deadlines the source may miss with bytes still to deliver
MaxBurst == 5        \* longest run of EE / 00 bytes put on the wire for the reader
Timeout == 1         \* the timeout argument, in ticks

(* Program constants *)

BODY_SIZE == 46
HEADER_REMAIN == 8
CHECK_SIZE == 4
READ_SIZE == 1024                    \* ser.read(1024) of the reader thread
START_SEQ == <<83, 89, 84, 67>>      \* 0x53 0x59 0x54 0x43

Byte == 0..255
Min(a, b) == IF a < b THEN a ELSE b
Max(a, b) == IF a > b THEN a ELSE b

(* Python slice s[lo:hi] of a sequence, negative indices counted from the  *)
(* end, out-of-range indices clipped.                                      *)
PyIndex(n, i) == IF i < 0 THEN Max(n + i, 0) ELSE Min(i, n)
PySlice(s, lo, hi) == SubSeq(s, PyIndex(Len(s), lo) + 1, PyIndex(Len(s), hi))

----------------------------------------------------------------------------
(* pydantic models (src/models.py) *)

\* faulty variant of MircoHeadValid: work_con an unconstrained byte
MircoHeadAnyWork(h) ==
    /\ Len(h.start_signal) = 4
    /\ h.data_length \in 0..255
    /\ h.mode \in 0..255
    /\ Len(h.time) = 2
    /\ h.num_TLV \in 0..255
    /\ Len(h.reserve) = 2

MircoHeadValid(h) ==
    /\ Len(h.start_signal) = 4
    /\ h.data_length \in 0..255
    /\ h.mode \in 0..255
    /\ Len(h.time) = 2
    /\ h.num_TLV \in 0..255
    /\ h.work_con \in 1..3
    /\ Len(h.reserve) = 2

\* faulty variant of MircoBodyValid: current_status an unconstrained int
MircoBodyAnyStatus(b) ==
    /\ b.tlv_signal \in 0..2
    /\ b.target_distance \in 0..256
    /\ b.target_azimuth \in -127..128
    /\ Len(b.respiration_curve) = 20
    /\ Len(b.heart_rate_curve) = 20

MircoBodyValid(b) ==
    /\ b.tlv_signal \in 0..2
    /\ b.target_distance \in 0..256
    /\ b.target_azimuth \in -127..128
    /\ b.current_status \in {1, 2}
    /\ Len(b.respiration_curve) = 20
    /\ Len(b.heart_rate_curve) = 20

MircoCheckValid(c) == Len(c.crc) = 2

----------------------------------------------------------------------------
(* Field extraction of parse_frame_from_serial *)

\* faulty variant of BodyArgs: the tlv byte is passed on as read
BodyArgsRawTlv(chunk) ==
    [ tlv_signal        |-> chunk[1],
      target_distance   |-> chunk[2],
      target_azimuth    |-> IF chunk[3] <= 127 THEN chunk[3] ELSE chunk[3] - 256,
      current_status    |-> chunk[4],
      respiration_value |-> chunk[5],
      heart_rate_value  |-> chunk[6],
      respiration_curve |-> PySlice(chunk, -44, -24),
      heart_rate_curve  |-> PySlice(chunk, -24, -4) ]

\* keyword arguments handed to MircoBody(...) for one 46-byte chunk
BodyArgs(chunk) ==
    [ tlv_signal        |-> IF chunk[1] = 0 THEN 1 ELSE chunk[1],
      target_distance   |-> chunk[2],
      target_azimuth    |-> IF chunk[3] <= 127 THEN chunk[3] ELSE chunk[3] - 256,
      current_status    |-> chunk[4],
      respiration_value |-> chunk[5],
      heart_rate_value  |-> chunk[6],
      respiration_curve |-> PySlice(chunk, -44, -24),
      heart_rate_curve  |-> PySlice(chunk, -24, -4) ]

\* bodies_bytes[offset : offset + BODY_SIZE] for the i-th body (i from 1)
BodyChunk(bodies_bytes, i) ==
    PySlice(bodies_bytes, (i - 1) * BODY_SIZE, (i - 1) * BODY_SIZE + BODY_SIZE)

\* faulty variant of HeadArgs: num_TLV taken from the data_length byte
HeadArgsCountFromLength(header_remain) ==
    [ start_signal |-> START_SEQ,
      data_length  |-> header_remain[1],
      mode         |-> header_remain[2],
      time         |-> PySlice(header_remain, 2, 4),
      num_TLV      |-> header_remain[1],
      work_con     |-> header_remain[6],
      reserve      |-> PySlice(header_remain, 6, 8) ]

\* keyword arguments handed to MircoHead(...)
HeadArgs(header_remain) ==
    [ start_signal |-> START_SEQ,
      data_length  |-> header_remain[1],
      mode         |-> header_remain[2],
      time         |-> PySlice(header_remain, 2, 4),
      num_TLV      |-> header_remain[5],
      work_con     |-> header_remain[6],
      reserve      |-> PySlice(header_remain, 6, 8) ]

\* keyword arguments handed to MircoCheck(...)
CheckArgs(check_bytes) ==
    [ crc |-> <<check_bytes[1], check_bytes[2]>>,
      zw  |-> <<check_bytes[3], check_bytes[4]>> ]

\* the second element of the returned tuple
HeaderInfo(header_remain) ==
    [ data_length  |-> header_remain[1],
      mode         |-> header_remain[2],
      time_minutes |-> header_remain[3] + header_remain[4] * 256,
      num_targets  |-> header_remain[5],
      work_status  |-> header_remain[6],
      reserve      |-> PySlice(header_remain, 6, 8) ]

----------------------------------------------------------------------------
(* Outcomes of one invocation *)

NoHead == [ start_signal |-> <<>>, data_length |-> 0, mode |-> 0, time |-> <<>>,
            num_TLV |-> 0, work_con |-> 0, reserve |-> <<>> ]
NoCheck == [ crc |-> <<>>, zw |-> <<>> ]
NoInfo == [ data_length |-> 0, mode |-> 0, time_minutes |-> 0, num_targets |-> 0,
            work_status |-> 0, reserve |-> <<>> ]
NoData == [ header |-> NoHead, bodies |-> <<>>, check |-> NoCheck, info |-> NoInfo ]

\* kind: "Frame" (the tuple of a MircoData and the header dictionary is
\*       returned; data holds both), "None" (None is returned),
\*       "ValidationError" (a pydantic ValidationError propagates),
\*       "IndexError" (indexing past the end of a bytes object)
\* site: the statement that ended the invocation
Outcome(kind, site, data, c, p) ==
    [ kind |-> kind, site |-> site, data |-> data,
      startPos |-> c.startPos, markerEnd |-> c.markerEnd,
      foundLate |-> c.foundLate, starved |-> c.starved, reads |-> c.reads,
      endPos |-> p ]

NewCall(p) == [ startPos |-> p, markerEnd |-> 0, foundLate |-> FALSE,
                starved |-> FALSE, readFrom |-> 0, split |-> FALSE,
                reads |-> <<>> ]

\* bookkeeping: read_exact(ser, n, timeout), entered with the cursor at
\* c.readFrom, returns b with the cursor at p; broke tells whether the loop
\* was left by the break, and then e is the time difference tested there;
\* split tells whether some ser.read returned fewer bytes than asked for
Returned(c, n, p, b, broke, e) ==
    [ c EXCEPT !.reads = Append(@, [ size |-> n, from |-> c.readFrom, to |-> p,
                                     got |-> b, broke |-> broke,
                                     split |-> c.split,
                                     brokeAt |-> IF broke THEN e ELSE 0 ]) ]

----------------------------------------------------------------------------
(* The serial source *)

Avail == Len(input) - pos

\* the numbers of bytes one ser.read(n) may return
ReadCounts(n) ==
    IF source = "erratic" THEN 0..Min(n, Avail) ELSE {Min(n, Avail)}

\* the read cursor after c more bytes
Advance(p, c) == IF source = "endless" THEN (p + c) % Len(input) ELSE p + c

\* the ticks one ser.read returning c bytes may take
Ticks(c) == IF source = "prompt" /\ c > 0 THEN {0} ELSE {0, 1}

\* a read returning c bytes at time difference e: the source lets a deadline
\* pass with bytes still to deliver at most MaxStalls times
SourceMay(c, e) == c > 0 \/ e <= Timeout \/ Avail = 0 \/ stalls < MaxStalls

\* a time difference after d more ticks; every value above Timeout behaves alike
Tick(t, d) == Min(t + d, Timeout + 1)

\* faulty variant of TimedOut: the deadline counts as passed when reached
TimedOutEarly(e) == e >= Timeout

\* (time.time() - start) > timeout
TimedOut(e) == e > Timeout

----------------------------------------------------------------------------
(* State updates *)

Set(p, c, w, b, n, e, s, h, bd, cl, r) ==
    /\ pos' = p
    /\ stalls' = stalls
    /\ pc' = c
    /\ window' = w
    /\ buf' = b
    /\ size' = n
    /\ elapsed' = e
    /\ spent' = s
    /\ hdr' = h
    /\ bodies' = bd
    /\ call' = cl
    /\ results' = r
    /\ UNCHANGED <<input, source>>
    /\ UNCHANGED reader

\* parse_frame_from_serial ends with outcome o, the cursor being at p.
\* What find_start's window held when it returned False is garbage that the
\* next find_start overwrites.
Finish(o, p) ==
    /\ pos' = p
    /\ pc' = "idle"
    /\ window' = window
    /\ buf' = <<>>
    /\ size' = 0
    /\ elapsed' = 0
    /\ spent' = 0
    /\ hdr' = <<>>
    /\ bodies' = <<>>
    /\ call' = NewCall(0)
    /\ stalls' = IF o.starved THEN stalls + 1 ELSE stalls
    /\ results' = Append(results, o)
    /\ UNCHANGED <<input, source>>
    /\ UNCHANGED reader

\* the parser enters read_exact(ser, n, timeout) in stage st
StartRead(st, n, p, s, h, bd, cl) ==
    Set(p, st, <<>>, <<>>, n, 0, s, h, bd,
        [cl EXCEPT !.readFrom = p, !.split = FALSE], results)

----------------------------------------------------------------------------
(* parse_frame_from_serial, between two reads *)

\* the for loop over the bodies, from body i on, acc being the list so far
RECURSIVE BuildBodies(_, _, _, _)
BuildBodies(bodies_bytes, num_TLV, i, acc) ==
    IF i > num_TLV THEN [ status |-> "ok", bodies |-> acc ]
    ELSE LET chunk == BodyChunk(bodies_bytes, i)
         IN IF Len(chunk) < BODY_SIZE
               THEN [ status |-> "None", bodies |-> acc ]
            ELSE IF ~ MircoBodyValid(BodyArgs(chunk))
               THEN [ status |-> "ValidationError", bodies |-> acc ]
            ELSE BuildBodies(bodies_bytes, num_TLV, i + 1,
                             Append(acc, BodyArgs(chunk)))

\* len(header_remain) < 8
HeaderShort(header_remain) == Len(header_remain) < HEADER_REMAIN

\* len(bodies_bytes) < expected_bodies_bytes
BodiesShort(bodies_bytes, expected) == Len(bodies_bytes) < expected

\* faulty variant of CheckShort: only the two crc bytes are required
CheckShortCrcOnly(check_bytes) == Len(check_bytes) < 2

\* len(check_bytes) < 4
CheckShort(check_bytes) == Len(check_bytes) < CHECK_SIZE

\* check_bytes was returned by read_exact: lines 136-161
AfterCheck(check_bytes, p, cl) ==
    IF CheckShort(check_bytes)
       THEN Finish(Outcome("None", "check", NoData, cl, p), p)
    ELSE IF Len(check_bytes) < 4
       THEN Finish(Outcome("IndexError", "check", NoData, cl, p), p)
    ELSE IF ~ MircoHeadValid(HeadArgs(hdr))
       THEN Finish(Outcome("ValidationError", "MircoHead", NoData, cl, p), p)
    ELSE IF ~ MircoCheckValid(CheckArgs(check_bytes))
       THEN Finish(Outcome("ValidationError", "MircoCheck", NoData, cl, p), p)
    ELSE Finish(Outcome("Frame", "return",
                        [ header |-> HeadArgs(hdr), bodies |-> bodies,
                          check |-> CheckArgs(check_bytes),
                          info |-> HeaderInfo(hdr) ], cl, p), p)

\* bodies_bytes was returned by read_exact: lines 104-135
AfterBodies(bodies_bytes, h, p, s, cl) ==
    IF BodiesShort(bodies_bytes, h[5] * BODY_SIZE)
       THEN Finish(Outcome("None", "bodies", NoData, cl, p), p)
    ELSE LET built == BuildBodies(bodies_bytes, h[5], 1, <<>>)
         IN IF built.status = "ok"
               THEN StartRead("read_check", CHECK_SIZE, p, s, h, built.bodies, cl)
            ELSE IF built.status = "None"
               THEN Finish(Outcome("None", "chunk", NoData, cl, p), p)
            ELSE Finish(Outcome("ValidationError", "MircoBody", NoData, cl, p), p)

\* header_remain was returned by read_exact: lines 92-103.  read_exact of
\* zero bytes returns at once, without a read.
AfterHeader(header_remain, p, s, cl) ==
    IF HeaderShort(header_remain)
       THEN Finish(Outcome("None", "header", NoData, cl, p), p)
    ELSE IF header_remain[5] * BODY_SIZE = 0
       THEN AfterBodies(<<>>, header_remain, p, s,
                        Returned([cl EXCEPT !.readFrom = p, !.split = FALSE], 0, p,
                                 <<>>, FALSE, 0))
    ELSE StartRead("read_bodies", header_remain[5] * BODY_SIZE, p, s,
                   header_remain, <<>>, cl)

----------------------------------------------------------------------------
(* Actions *)

\* faulty variant of Call: find_start goes on with the window of the
\* find_start before it
CallKeepingWindow ==
    /\ pc = "idle"
    /\ Len(results) < MaxCalls
    /\ Set(pos, "find_start", window, <<>>, 0, 0, 0, <<>>, <<>>, NewCall(pos), results)

\* the caller invokes parse_frame_from_serial; find_start begins with
\* window = bytearray()
Call ==
    /\ pc = "idle"
    /\ Len(results) < MaxCalls
    /\ Set(pos, "find_start", <<>>, <<>>, 0, 0, 0, <<>>, <<>>, NewCall(pos), results)

\* one iteration of the loop of find_start
FindStart ==
    /\ pc = "find_start"
    /\ \E c \in ReadCounts(1) : \E d \in Ticks(c) :
         LET e  == Tick(elapsed, d)
             s  == Tick(spent, d)
             w1 == window \o SubSeq(input, pos + 1, pos + c)
             w2 == IF Len(w1) > Len(START_SEQ) THEN Tail(w1) ELSE w1
         IN /\ SourceMay(c, e)
            /\ IF c = 0
                  THEN IF TimedOut(e)
                          THEN Finish(Outcome("None", "find_start", NoData,
                                      [call EXCEPT !.starved = Avail > 0], pos), pos)
                       ELSE Set(pos, pc, window, buf, size, e, s, hdr, bodies, call,
                                results)
               ELSE IF w2 = START_SEQ
                  THEN StartRead("read_header", HEADER_REMAIN, Advance(pos, c), s,
                                 <<>>, <<>>,
                                 [call EXCEPT !.markerEnd = pos + c,
                                              !.foundLate = TimedOut(e)])
               ELSE Set(Advance(pos, c), pc, w2, buf, size, e, s, hdr, bodies, call,
                        results)

\* the code of parse_frame_from_serial that runs once the read_exact of
\* stage st has returned b
AfterRead(st, b, p, s, cl) ==
    IF st = "read_header" THEN AfterHeader(b, p, s, cl)
    ELSE IF st = "read_bodies" THEN AfterBodies(b, hdr, p, s, cl)
    ELSE AfterCheck(b, p, cl)

\* faulty variant of Extend: the chunk replaces what was collected
ExtendReplacing(b, chunk) == chunk

\* buf.extend(chunk)
Extend(b, chunk) == b \o chunk

\* one iteration of the loop of read_exact, called in stage st
ReadExact(st) ==
    /\ pc = st
    /\ \E c \in ReadCounts(size - Len(buf)) : \E d \in Ticks(c) :
         LET e  == Tick(elapsed, d)
             s  == Tick(spent, d)
             b2 == Extend(buf, SubSeq(input, pos + 1, pos + c))
             cl == [call EXCEPT !.split = @ \/ c < size - Len(buf)]
         IN /\ SourceMay(c, e)
            /\ IF c > 0
                  THEN IF Len(b2) < size
                          THEN Set(Advance(pos, c), pc, window, b2, size, e, s, hdr,
                                   bodies, cl, results)
                       ELSE AfterRead(st, b2, Advance(pos, c), s,
                                      Returned(cl, size, Advance(pos, c), b2,
                                               FALSE, e))
               ELSE IF TimedOut(e)
                  THEN AfterRead(st, buf, pos, s,
                                 Returned([cl EXCEPT !.starved = Avail > 0], size,
                                          pos, buf, TRUE, e))
               ELSE Set(pos, pc, window, buf, size, e, s, hdr, bodies, cl, results)

ReadHeader == ReadExact("read_header")
ReadBodies == ReadExact("read_bodies")
ReadCheck == ReadExact("read_check")

----------------------------------------------------------------------------
(* Byte streams put on the wire *)

RECURSIVE Flatten(_)
Flatten(ss) == IF ss = <<>> THEN <<>> ELSE Head(ss) \o Flatten(Tail(ss))

Prefixes(s) == { SubSeq(s, 1, n) : n \in 0..Len(s) }

\* a 46-byte record: six scalar bytes, then 40 bytes that differ by position
Record(tlv, dist, az, st, resp, hr) ==
    <<tlv, dist, az, st, resp, hr>> \o [i \in 1..40 |-> 100 + i]

\* the 8 bytes after the marker
Header(dl, mode, num, work) == <<dl, mode, 5, 1, num, work, 0, 0>>

EE == <<238, 238>>
Check(zw) == <<171, 205>> \o zw

WireFrame(h, recs, chk) == START_SEQ \o h \o Flatten(recs) \o chk

GoodRecord == Record(0, 10, 200, 1, 70, 75)
OtherRecord == Record(2, 255, 100, 2, 0, 255)

\* a frame of k records that the spec calls well-formed
GoodFrame(k) ==
    WireFrame(Header(k * BODY_SIZE, 1, k, 1),
              [i \in 1..k |-> IF i = 1 THEN GoodRecord ELSE OtherRecord], Check(EE))

\* one-record frames with one byte off the usual
FrameAz(b) == WireFrame(Header(46, 1, 1, 1), <<Record(0, 10, b, 1, 70, 75)>>, Check(EE))
FrameTlv(b) == WireFrame(Header(46, 1, 1, 1), <<Record(b, 10, 200, 2, 70, 75)>>, Check(EE))
FrameStatus(b) == WireFrame(Header(46, 1, 1, 1), <<Record(1, 10, 100, b, 70, 75)>>, Check(EE))
FrameWork(b) == WireFrame(Header(46, 1, 1, b), <<GoodRecord>>, Check(EE))
FrameLength(b) == WireFrame(Header(b, 1, 1, 1), <<GoodRecord>>, Check(EE))
FrameZw(b) == WireFrame(Header(46, 1, 1, 1), <<GoodRecord>>, Check(<<238, b>>))

\* the wire bytes of one record built from its fields: the six scalars in
\* order, the azimuth in two's complement, then the two curves
EncodeBody(b) ==
    << b.tlv_signal, b.target_distance,
       IF b.target_azimuth >= 0 THEN b.target_azimuth ELSE b.target_azimuth + 256,
       b.current_status, b.respiration_value, b.heart_rate_value >>
    \o b.respiration_curve \o b.heart_rate_curve

\* the wire bytes of a frame built from its fields
EncodeFrame(f) ==
    f.header.start_signal
    \o << f.header.data_length, f.header.mode >> \o f.header.time
    \o << f.header.num_TLV, f.header.work_con >> \o f.header.reserve
    \o Flatten([i \in 1..Len(f.bodies) |-> EncodeBody(f.bodies[i])])
    \o f.check.crc \o f.check.zw

Body(tlv, dist, az, st, resp, hr, rc, hc) ==
    [ tlv_signal |-> tlv, target_distance |-> dist, target_azimuth |-> az,
      current_status |-> st, respiration_value |-> resp, heart_rate_value |-> hr,
      respiration_curve |-> rc, heart_rate_curve |-> hc ]

\* records of valid fields: curves all zero, curves of distinct bytes,
\* the extreme azimuths, and a record all of whose bytes are equal
ValidBodies ==
    { Body(1, 10, -56, 1, 70, 75, [i \in 1..20 |-> 0], [i \in 1..20 |-> 0]),
      Body(2, 255, 127, 2, 0, 255, [i \in 1..20 |-> i], [i \in 1..20 |-> 20 + i]),
      Body(1, 0, -128, 1, 1, 1, [i \in 1..20 |-> 255], [i \in 1..20 |-> 0]),
      Body(1, 1, 1, 1, 1, 1, [i \in 1..20 |-> 1], [i \in 1..20 |-> 1]) }

BodyLists(n) == UNION { [1..k -> ValidBodies] : k \in 0..n }

\* frames of valid fields
ValidFrames ==
    { [ header |-> [ start_signal |-> START_SEQ, data_length |-> 46 * Len(bs),
                     mode |-> 1, time |-> <<5, 1>>, num_TLV |-> Len(bs),
                     work_con |-> 3, reserve |-> <<0, 0>> ],
        bodies |-> bs,
        check |-> [ crc |-> <<171, 205>>, zw |-> EE ] ] : bs \in BodyLists(MaxTargets) }

\* byte sequences that do not contain the marker
Garbage ==
    { <<>>, <<0>>, <<83>>, <<83, 89>>, <<83, 89, 84>>, <<83, 83>>,
      <<67, 83, 89, 84, 83>>, <<238, 238>> }

\* every value of one byte of a one-record frame
SweepStreams ==
    UNION { { FrameAz(b), FrameTlv(b), FrameStatus(b), FrameWork(b), FrameZw(b) } :
            b \in Byte }

SomeFrames ==
    { GoodFrame(k) : k \in 0..MaxTargets }
    \cup { FrameAz(128), FrameAz(127), FrameTlv(3), FrameStatus(3), FrameStatus(0),
           FrameWork(0), FrameWork(4), FrameLength(0), FrameZw(0),
           WireFrame(Header(92, 1, 2, 1), <<GoodRecord, Record(1, 0, 0, 0, 0, 0)>>,
                     Check(EE)) }

\* streams read from a prompt source
PromptStreams ==
    SweepStreams
    \cup { g \o f : g \in Garbage, f \in SomeFrames }
    \cup Prefixes(<<0>> \o GoodFrame(MaxTargets))
    \cup Prefixes(FrameStatus(3))
    \cup { EncodeFrame(f) : f \in ValidFrames }
    \cup { f1 \o g \o f2 : f1 \in SomeFrames, g \in {<<>>, <<83>>}, f2 \in SomeFrames }

\* streams read from an erratic source
ErraticStreams ==
    Garbage
    \cup { g \o GoodFrame(0) : g \in Garbage }
    \cup { GoodFrame(0) \o GoodFrame(0), <<83, 89>> \o GoodFrame(1),
           FrameStatus(3) }

----------------------------------------------------------------------------
Init ==
    /\ \/ source = "prompt" /\ input \in PromptStreams
       \/ source = "erratic" /\ input \in ErraticStreams
    /\ pos = 0
    /\ pc = "idle"
    /\ window = <<>>
    /\ buf = <<>>
    /\ size = 0
    /\ elapsed = 0
    /\ spent = 0
    /\ hdr = <<>>
    /\ bodies = <<>>
    /\ call = NewCall(0)
    /\ stalls = 0
    /\ results = <<>>
    /\ thread = "not started"
    /\ all_data = <<>>
    /\ frames = <<>>
    /\ data_queue = <<>>

Next == Call \/ FindStart \/ ReadHeader \/ ReadBodies \/ ReadCheck

Spec == Init /\ [][Next]_vars

\* streams of the runs in which the parser and the clock keep going: an
\* endless source repeats its stream for ever
EndlessStreams ==
    { <<0, 1>>, <<83, 89, 84>>, <<83, 89, 84, 83, 89, 84, 67>>, GoodFrame(0),
      GoodFrame(1) }

SlowStreams ==
    { <<>>, <<0>>, <<83, 89, 84>>, <<83, 89, 84, 67>>, <<83, 89, 84, 67, 0, 1, 5>>,
      GoodFrame(0), FrameStatus(3) }

LiveInit ==
    /\ \/ source = "endless" /\ input \in EndlessStreams
       \/ source = "erratic" /\ input \in SlowStreams
    /\ pos = 0
    /\ pc = "idle"
    /\ window = <<>>
    /\ buf = <<>>
    /\ size = 0
    /\ elapsed = 0
    /\ spent = 0
    /\ hdr = <<>>
    /\ bodies = <<>>
    /\ call = NewCall(0)
    /\ stalls = 0
    /\ results = <<>>
    /\ thread = "not started"
    /\ all_data = <<>>
    /\ frames = <<>>
    /\ data_queue = <<>>

\* the thread running the parser is scheduled again and again, and each
\* step that can change the state (a byte read, a tick of the clock) is
\* eventually taken
LiveSpec == LiveInit /\ [][Next]_vars /\ WF_vars(Next)

----------------------------------------------------------------------------
(* serial_read_thread of SerialReader.read_loop *)

\* the for loop over range(len(all_data) - 1): the first index i (from 0)
\* with all_data[i] = all_data[i + 1] = 0xEE, or -1 when the loop ends
\* without a hit
FirstPair(d) ==
    LET hits == { i \in 0..(Len(d) - 2) : d[i + 1] = 238 /\ d[i + 2] = 238 }
    IN IF hits = {} THEN -1
       ELSE CHOOSE i \in hits : \A j \in hits : i <= j

\* frame = all_data[:i+2]
Cut(d, i) == PySlice(d, 0, i + 2)

\* faulty variant of Rest: the second EE of the pair is left in all_data
RestFromPair(d, i) == PySlice(d, i + 1, Len(d))

\* all_data = all_data[i+2:]
Rest(d, i) == PySlice(d, i + 2, Len(d))

\* the values put into data_queue for one frame: frame[41:61], each byte
\* read as signed (the time stamps put with them are left out)
Points(frame) ==
    IF Len(frame) >= 61
       THEN [k \in 1..20 |-> IF frame[41 + k] >= 128 THEN frame[41 + k] - 256
                                                    ELSE frame[41 + k]]
    ELSE <<>>

\* data = self.ser.read(1024); a non-empty chunk is appended to all_data
\* and the scan begins, an empty one leads back to the read
SerialRead ==
    /\ thread = "read"
    /\ \E c \in ReadCounts(READ_SIZE) :
         /\ pos' = pos + c
         /\ all_data' = all_data \o SubSeq(input, pos + 1, pos + c)
         /\ thread' = IF c > 0 THEN "scan" ELSE "read"
    /\ UNCHANGED <<input, source, frames, data_queue>>
    /\ UNCHANGED parser

\* one round of the inner while loop in which the for loop finds a pair:
\* the frame is cut off, printed, written to the csv files and queued
ExtractFrame ==
    /\ thread = "scan"
    /\ FirstPair(all_data) >= 0
    /\ LET i == FirstPair(all_data)
       IN /\ frames' = Append(frames, Cut(all_data, i))
          /\ data_queue' = data_queue \o Points(Cut(all_data, i))
          /\ all_data' = Rest(all_data, i)
    /\ UNCHANGED <<input, source, pos, thread>>
    /\ UNCHANGED parser

\* the round of the inner while loop in which the for loop finds no pair
ScanDone ==
    /\ thread = "scan"
    /\ FirstPair(all_data) = -1
    /\ thread' = "read"
    /\ UNCHANGED <<input, source, pos, all_data, frames, data_queue>>
    /\ UNCHANGED parser

\* an exception ends the thread: ser.read raises, or writing a frame of 61
\* bytes or more to the csv files raises (before anything of the frame is
\* queued and before all_data is cut)
ReaderError ==
    /\ \/ thread = "read"
       \/ /\ thread = "scan"
          /\ FirstPair(all_data) >= 0
          /\ Len(Cut(all_data, FirstPair(all_data))) >= 61
    /\ thread' = "ended"
    /\ data_queue' = Append(data_queue, "ERROR")
    /\ UNCHANGED <<input, source, pos, all_data, frames>>
    /\ UNCHANGED parser

\* runs of EE and 00 bytes of every length up to n
Bursts(n) == UNION { [1..k -> {238, 0}] : k \in 0..n }

\* streams read by the reader thread
ReaderStreams ==
    Bursts(MaxBurst)
    \cup { g \o f : g \in {<<>>, <<238>>, <<0, 238>>},
                    f \in {GoodFrame(0), GoodFrame(1), FrameZw(0) \o GoodFrame(0),
                           GoodFrame(1) \o <<238>> \o GoodFrame(0)} }
    \cup { <<238, 238>> \o GoodFrame(1) \o <<238, 0>> }

ReaderInit ==
    /\ source = "erratic" /\ input \in ReaderStreams
    /\ pos = 0
    /\ pc = "idle"
    /\ window = <<>>
    /\ buf = <<>>
    /\ size = 0
    /\ elapsed = 0
    /\ spent = 0
    /\ hdr = <<>>
    /\ bodies = <<>>
    /\ call = NewCall(0)
    /\ stalls = 0
    /\ results = <<>>
    /\ thread = "read"
    /\ all_data = <<>>
    /\ frames = <<>>
    /\ data_queue = <<>>

ReaderNext == SerialRead \/ ExtractFrame \/ ScanDone \/ ReaderError

ReaderSpec == ReaderInit /\ [][ReaderNext]_vars

----------------------------------------------------------------------------
(* Vocabulary of the properties, read off the byte stream alone *)

Calls == 1..Len(results)

\* offsets at which the 4-byte marker occurs in the stream
MarkerStarts ==
    { m \in 0..(Len(input) - 4) : SubSeq(input, m + 1, m + 4) = START_SEQ }

\* offset of the first marker occurrence at or after offset p, or -1
FirstMarkerFrom(p) ==
    IF \E m \in MarkerStarts : m >= p
       THEN CHOOSE m \in MarkerStarts :
                m >= p /\ \A n \in MarkerStarts : n >= p => m <= n
    ELSE -1

\* bytes of the stream that follow the marker at offset m
AfterMarker(m) == Len(input) - (m + 4)

\* num_targets byte of the frame whose marker is at offset m
NumTargetsAt(m) == input[m + 4 + 5]

\* bytes of a whole frame of k targets, marker included
FrameBytes(k) == 4 + 8 + 46 * k + 4

\* the j-th byte (from 0) of record i (from 1) of the frame at offset m
RecordByte(m, i, j) == input[m + 12 + 46 * (i - 1) + j + 1]

\* the whole frame of the marker at offset m is in the stream
CompleteAt(m) ==
    /\ AfterMarker(m) >= 8
    /\ AfterMarker(m) >= 8 + 46 * NumTargetsAt(m) + 4

\* all records of the frame of the marker at offset m are in the stream
RecordsAt(m) ==
    /\ AfterMarker(m) >= 8
    /\ AfterMarker(m) >= 8 + 46 * NumTargetsAt(m)

\* the frame at offset m is complete and well-formed in the sense of the
\* specification: work_status in 1..3, every record with tlv in 0..2 and
\* status 1 or 2, terminator EE EE; every other byte is free
WellFormedAt(m) ==
    /\ CompleteAt(m)
    /\ input[m + 4 + 6] \in 1..3
    /\ \A i \in 1..NumTargetsAt(m) :
          /\ RecordByte(m, i, 0) \in 0..2
          /\ RecordByte(m, i, 3) \in {1, 2}
    /\ SubSeq(input, m + FrameBytes(NumTargetsAt(m)) - 1,
              m + FrameBytes(NumTargetsAt(m))) = EE

\* the source delivered every byte the invocation waited for before the
\* deadline it was waiting under
Timely(r) == ~ r.starved /\ ~ r.foundLate

\* the failure values of the specification
IsTimeout(r) == r.kind = "None" /\ r.site = "find_start"
IsTruncated(r) == r.kind = "None" /\ r.site \in {"header", "bodies", "check"}
IsMalformed(r) == r.kind = "ValidationError"

----------------------------------------------------------------------------
(* C1: whenever the marker is followed by a complete well-formed frame of  *)
(* k targets and every byte is delivered in time, the invocation returns a *)
(* Frame with len(bodies) = k and header.num_targets = k (k = 0 included). *)
C1_WellFormedFrameDecodes ==
    \A i \in Calls :
        LET r == results[i]
            m == FirstMarkerFrom(r.startPos)
        IN (m >= 0 /\ WellFormedAt(m) /\ Timely(r))
           => /\ r.kind = "Frame"
              /\ Len(r.data.bodies) = NumTargetsAt(m)
              /\ r.data.header.num_TLV = NumTargetsAt(m)

----------------------------------------------------------------------------
\* find_start of the invocation returned True
MarkerFound(r) == r.markerEnd > 0

\* fewer bytes than the frame of the marker at offset m needs followed the
\* marker before a deadline: the stream ends early, or the source let a
\* deadline pass
Incomplete(r, m) == ~ CompleteAt(m) \/ r.starved

\* all records of the frame at offset m were delivered to the invocation
RecordsDelivered(r, m) ==
    /\ RecordsAt(m)
    /\ r.endPos >= m + 12 + 46 * NumTargetsAt(m)

\* record i of the frame at offset m has a wire byte the models refuse
RejectedRecord(m, i) ==
    \/ RecordByte(m, i, 0) \notin 0..2
    \/ RecordByte(m, i, 3) \notin {1, 2}
    \/ RecordByte(m, i, 2) = 128

SomeRejected(m) == \E i \in 1..NumTargetsAt(m) : RejectedRecord(m, i)

----------------------------------------------------------------------------
\* the marker was not completely delivered to the invocation before its
\* deadline: the stream holds none from where the invocation started, or
\* its last byte was read after more than Timeout ticks
NoMarkerBeforeDeadline(r) ==
    FirstMarkerFrom(r.startPos) = -1 \/ r.foundLate

(* C3: an invocation that did not get the marker before the deadline ends  *)
(* with the Timeout failure and no Frame, whether the source was silent or *)
(* kept delivering bytes.                                                  *)
C3_NoMarkerIsTimeout ==
    \A i \in Calls :
        NoMarkerBeforeDeadline(results[i])
        => IsTimeout(results[i]) /\ results[i].data = NoData

----------------------------------------------------------------------------
\* the Frame of outcome r was decoded from the frame whose marker is at
\* offset m: its header fields are the 8 bytes right after that marker and
\* each body starts at its record's first byte
DecodedFrom(r, m) ==
    /\ r.kind = "Frame"
    /\ r.data.header.start_signal = START_SEQ
    /\ r.data.header.data_length = input[m + 5]
    /\ r.data.header.mode = input[m + 6]
    /\ r.data.header.time = <<input[m + 7], input[m + 8]>>
    /\ r.data.header.num_TLV = input[m + 9]
    /\ r.data.header.work_con = input[m + 10]
    /\ r.data.header.reserve = <<input[m + 11], input[m + 12]>>
    /\ Len(r.data.bodies) = NumTargetsAt(m)
    /\ \A j \in 1..NumTargetsAt(m) :
          /\ r.data.bodies[j].target_distance = RecordByte(m, j, 1)
          /\ r.data.bodies[j].current_status = RecordByte(m, j, 3)
          /\ r.data.bodies[j].respiration_value = RecordByte(m, j, 4)
          /\ r.data.bodies[j].heart_rate_value = RecordByte(m, j, 5)

(* C4: resynchronization.  Whatever marker-free bytes (one at least)       *)
(* precede the first marker, partial markers and runs of 53 included, when *)
(* a well-formed                                                           *)
(* frame follows it and is delivered in time the invocation returns that   *)
(* frame: the bytes before the marker are discarded, the search consumes   *)
(* nothing after the marker and the header is read from the byte right     *)
(* after it.                                                               *)
C4_Resynchronizes ==
    \A i \in Calls :
        LET r == results[i]
            m == FirstMarkerFrom(r.startPos)
        IN (m > r.startPos /\ WellFormedAt(m) /\ Timely(r))
           => /\ r.markerEnd = m + 4
              /\ DecodedFrom(r, m)

----------------------------------------------------------------------------
(* C5: every invocation ends by returning a value, a Frame or a failure;   *)
(* none ends with an exception reaching the caller, and a failure carries  *)
(* no part of a Frame.                                                     *)
C5_FailuresAreReturned ==
    \A i \in Calls :
        /\ results[i].kind \in {"Frame", "None"}
        /\ results[i].kind # "Frame" => results[i].data = NoData

----------------------------------------------------------------------------
\* some record of the frame at offset m has a status byte other than 1, 2
BadStatusAt(m) ==
    \E j \in 1..NumTargetsAt(m) : RecordByte(m, j, 3) \notin {1, 2}

----------------------------------------------------------------------------
\* the signed reading of a wire byte
Signed(b) == IF b <= 127 THEN b ELSE b - 256

(* C7: azimuth normalization.  For every wire byte b in the azimuth        *)
(* position of a record of a well-formed frame delivered in time, decoding *)
(* succeeds and the body's target_azimuth is b when b <= 127 and b - 256   *)
(* when b > 127.                                                           *)
C7_AzimuthNormalization ==
    \A i \in Calls :
        LET r == results[i]
            m == r.markerEnd - 4
        IN (MarkerFound(r) /\ WellFormedAt(m) /\ Timely(r))
           => /\ r.kind = "Frame"
              /\ Len(r.data.bodies) = NumTargetsAt(m)
              /\ \A j \in 1..NumTargetsAt(m) :
                    r.data.bodies[j].target_azimuth = Signed(RecordByte(m, j, 2))

----------------------------------------------------------------------------
----------------------------------------------------------------------------
\* the stream read as back-to-back well-formed frames from offset 0:
\* off is the offset right after the first n of them, ok tells whether
\* the stream does begin with n such frames
RECURSIVE Chain(_)
Chain(n) ==
    IF n = 0 THEN [ ok |-> TRUE, off |-> 0 ]
    ELSE LET c == Chain(n - 1)
         IN IF c.ok /\ c.off \in MarkerStarts /\ WellFormedAt(c.off)
               THEN [ ok |-> TRUE,
                      off |-> c.off + FrameBytes(NumTargetsAt(c.off)) ]
            ELSE [ ok |-> FALSE, off |-> c.off ]

(* C9: a returned Frame has consumed exactly 4 + 8 + 46 * num_targets + 4  *)
(* bytes counted from the first marker byte, whatever its data_length      *)
(* byte; and on a stream of two or more back-to-back well-formed frames   *)
(* delivered in time the i-th invocation returns the i-th frame, ending    *)
(* right after its terminator.                                             *)
C9_FramesInStreamOrder ==
    \A i \in Calls :
        LET r == results[i]
        IN /\ r.kind = "Frame"
              => r.endPos = r.markerEnd - 4 + FrameBytes(r.data.header.num_TLV)
           /\ (Chain(Max(i, 2)).ok /\ \A j \in 1..i : Timely(results[j]))
              => /\ DecodedFrom(r, Chain(i - 1).off)
                 /\ r.startPos = Chain(i - 1).off
                 /\ r.endPos = Chain(i).off

----------------------------------------------------------------------------
(* C10: after an invocation that failed (Timeout, Truncated or Malformed), *)
(* when what remains of the stream is marker-free bytes, then the marker   *)
(* and a complete well-formed frame, delivered in time, the next           *)
(* invocation starts where the failed one stopped and returns that frame.  *)
C10_FailureDoesNotPoison ==
    \A i \in Calls :
        i >= 2 =>
        LET p == results[i - 1]
            r == results[i]
            m == FirstMarkerFrom(r.startPos)
        IN (p.kind # "Frame" /\ m >= 0 /\ WellFormedAt(m) /\ Timely(r))
           => /\ r.startPos = p.endPos
              /\ r.markerEnd = m + 4
              /\ DecodedFrom(r, m)

----------------------------------------------------------------------------
\* the 4 footer bytes of the frame whose marker is at offset m
FooterAt(m) ==
    SubSeq(input, m + FrameBytes(NumTargetsAt(m)) - 3,
           m + FrameBytes(NumTargetsAt(m)))

\* the frame at offset m is complete and well-formed but for its two
\* terminator bytes, which are free
WellFormedButTerminatorAt(m) ==
    /\ CompleteAt(m)
    /\ input[m + 4 + 6] \in 1..3
    /\ \A i \in 1..NumTargetsAt(m) :
          /\ RecordByte(m, i, 0) \in 0..2
          /\ RecordByte(m, i, 3) \in {1, 2}
          /\ RecordByte(m, i, 2) # 128

\* the attributes of the object a successful invocation returns
Attributes(r) == DOMAIN r.data

(* C11: when the terminator bytes of an otherwise well-formed frame,       *)
(* delivered in time, are not EE EE, the invocation still returns the      *)
(* Frame, with the two checksum bytes and the two terminator bytes as on   *)
(* the wire, and the Frame carries a flag checksum_invalid that is true;   *)
(* in every returned Frame the flag is false exactly when the terminator   *)
(* is EE EE.                                                               *)
C11_TerminatorMismatchIsFlagged ==
    \A i \in Calls :
        LET r == results[i]
            m == r.markerEnd - 4
        IN /\ ( /\ MarkerFound(r)
                /\ WellFormedButTerminatorAt(m)
                /\ Timely(r)
                /\ SubSeq(FooterAt(m), 3, 4) # EE )
              => /\ r.kind = "Frame"
                 /\ r.data.check.crc = SubSeq(FooterAt(m), 1, 2)
                 /\ r.data.check.zw = SubSeq(FooterAt(m), 3, 4)
                 /\ "checksum_invalid" \in Attributes(r)
                 /\ r.data.checksum_invalid = TRUE
           /\ r.kind = "Frame"
              => /\ "checksum_invalid" \in Attributes(r)
                 /\ r.data.checksum_invalid = (r.data.check.zw # EE)

----------------------------------------------------------------------------
(* C12: every Frame an invocation returns, whatever the stream and the     *)
(* invocations before it, has as many bodies as its header's num_targets   *)
(* says, the marker 53 59 54 43 as start_signal, and in each body a        *)
(* target_distance in 0..255, a target_azimuth in -128..127, a             *)
(* current_status of 1 or 2 and two curves of exactly 20 entries.          *)
C12_FrameInvariants ==
    \A i \in Calls :
        LET r == results[i]
        IN r.kind = "Frame"
           => /\ Len(r.data.bodies) = r.data.header.num_TLV
              /\ Len(r.data.bodies) = r.data.info.num_targets
              /\ r.data.header.start_signal = <<83, 89, 84, 67>>
              /\ \A j \in 1..Len(r.data.bodies) :
                    /\ r.data.bodies[j].target_distance \in 0..255
                    /\ r.data.bodies[j].target_azimuth \in -128..127
                    /\ r.data.bodies[j].current_status \in {1, 2}
                    /\ Len(r.data.bodies[j].respiration_curve) = 20
                    /\ Len(r.data.bodies[j].heart_rate_curve) = 20

\* a second invocation has returned a Frame of two bodies, the first with
\* a negative azimuth, the second with distance 255 and status 2, from a
\* frame whose data_length byte does not match its number of records
C12_Witness ==
    /\ Len(results) = 2
    /\ results[2].kind = "Frame"
    /\ Len(results[2].data.bodies) = 2
    /\ results[2].data.bodies[1].target_azimuth < 0
    /\ results[2].data.bodies[2].target_distance = 255
    /\ results[2].data.bodies[2].current_status = 2
    /\ \E k \in Calls :
          /\ results[k].kind = "Frame"
          /\ results[k].data.header.data_length # 46 * Len(results[k].data.bodies)

----------------------------------------------------------------------------
(* C13: round trip.  For every frame built from valid fields (tlv_signal 1 *)
(* or 2, current_status 1 or 2, azimuth in -128..127, the other scalars in *)
(* 0..255, two curves of 20 arbitrary bytes), the invocation that reads    *)
(* the frame's wire encoding, delivered in time, returns a Frame whose     *)
(* header, bodies and footer equal the original field for field.           *)
C13_RoundTrip ==
    \A f \in ValidFrames :
        (input = EncodeFrame(f) /\ Len(results) >= 1 /\ Timely(results[1]))
        => /\ results[1].kind = "Frame"
           /\ results[1].data.header = f.header
           /\ results[1].data.bodies = f.bodies
           /\ results[1].data.check = f.check

----------------------------------------------------------------------------
\* bytes lo..hi (from 0) of record j of the frame at offset m
RecordBytes(m, j, lo, hi) == [k \in 1..(hi - lo + 1) |-> RecordByte(m, j, lo + k - 1)]

(* C14: in every returned Frame each body's fields come from the           *)
(* sequential positions of its 46-byte record: tlv_signal from byte 0,     *)
(* target_distance byte 1, target_azimuth byte 2, current_status byte 3,   *)
(* respiration_value byte 4, heart_rate_value byte 5, respiration_curve    *)
(* the 20 bytes 6..25 that follow heart_rate_value and heart_rate_curve    *)
(* the 20 bytes 26..45 after those, so that no curve entry is a byte that  *)
(* also supplies a scalar.                                                 *)
C14_RecordLayout ==
    \A i \in Calls :
        LET r == results[i]
            m == r.markerEnd - 4
        IN r.kind = "Frame"
           => \A j \in 1..Len(r.data.bodies) :
                 LET b == r.data.bodies[j]
                 IN /\ b.tlv_signal = IF RecordByte(m, j, 0) = 0 THEN 1
                                       ELSE RecordByte(m, j, 0)
                    /\ b.target_distance = RecordByte(m, j, 1)
                    /\ b.target_azimuth = Signed(RecordByte(m, j, 2))
                    /\ b.current_status = RecordByte(m, j, 3)
                    /\ b.respiration_value = RecordByte(m, j, 4)
                    /\ b.heart_rate_value = RecordByte(m, j, 5)
                    /\ b.respiration_curve = RecordBytes(m, j, 6, 25)
                    /\ b.heart_rate_curve = RecordBytes(m, j, 26, 45)

----------------------------------------------------------------------------
\* the operations that wait under a deadline
Operations == {"find_start", "read_header", "read_bodies", "read_check"}

(* C15: no operation blocks for ever.  Once the deadline of the running    *)
(* find_start or read_exact has elapsed that operation eventually returns, *)
(* and the invocation of parse_frame_from_serial it belongs to eventually  *)
(* returns, whether the source is silent, trickles bytes or delivers bytes *)
(* without end.                                                            *)
C15_NoOperationBlocksForever ==
    /\ \A op \in Operations : (pc = op /\ TimedOut(elapsed)) ~> (pc # op)
    /\ (pc \in Operations /\ TimedOut(spent)) ~> (pc = "idle")

----------------------------------------------------------------------------
\* the stages that call read_exact
ReadStages == {"read_header", "read_bodies", "read_check"}

\* a step in which a read of a read_exact stage returned no byte
EmptyRead == pc \in ReadStages /\ pos' = pos

(* C16: one invocation runs under a single overall deadline.  The header,  *)
(* body and footer reads measure time from the start of the invocation:    *)
(* an empty read made when more than the timeout has passed since the      *)
(* invocation began ends the invocation, however recently the stage began, *)
(* so no stage gets a full timeout of its own.                             *)
C16_OneOverallDeadline ==
    [][ (EmptyRead /\ TimedOut(spent')) => pc' = "idle" ]_vars

----------------------------------------------------------------------------
\* the calls of read_exact that returned in the course of outcome r
Reads(r) == { r.reads[k] : k \in 1..Len(r.reads) }

(* C17: every call read_exact(ser, n, timeout) returns a value: at most n  *)
(* bytes, exactly the bytes the source gave up from where the cursor stood *)
(* when the call began to where it stands at the return, in order; the     *)
(* value is shorter than n only when the loop was left after an empty read *)
(* made with the deadline elapsed; and for n = 0 it is empty and the       *)
(* cursor has not moved.                                                   *)
C17_ReadExact ==
    \A i \in Calls : \A x \in Reads(results[i]) :
        /\ Len(x.got) <= x.size
        /\ x.to = x.from + Len(x.got)
        /\ x.got = SubSeq(input, x.from + 1, x.to)
        /\ Len(x.got) < x.size => (x.broke /\ x.brokeAt > Timeout)
        /\ x.size = 0 => (x.got = <<>> /\ x.to = x.from /\ ~ x.broke)

\* one invocation saw read_exact return all 8 header bytes, return at once
\* for n = 0, and return a short, non-empty footer after its deadline
C17_Witness ==
    \E i \in Calls :
        LET r == results[i]
        IN /\ Len(r.reads) = 3
           /\ r.reads[1].size = 8 /\ Len(r.reads[1].got) = 8
           /\ r.reads[2].size = 0
           /\ r.reads[3].size = 4
           /\ Len(r.reads[3].got) \in 1..3
           /\ r.reads[3].broke
           /\ r.kind = "None"

----------------------------------------------------------------------------
\* work_status byte of the frame whose marker is at offset m
WorkStatusAt(m) == input[m + 4 + 6]

----------------------------------------------------------------------------
\* bytes p+1 .. p+n of the stream, as far as the stream goes
Upto(p, n) == SubSeq(input, p + 1, Min(p + n, Len(input)))

\* what an invocation entered with the cursor at p comes to when every
\* read returns at once all the bytes asked for, as far as the stream goes
WholeDecode(p) ==
    LET m == FirstMarkerFrom(p)
        h == Upto(m + 4, HEADER_REMAIN)
        n == h[5] * BODY_SIZE
        bb == Upto(m + 12, n)
        built == BuildBodies(bb, h[5], 1, <<>>)
        chk == Upto(m + 12 + n, CHECK_SIZE)
        End(kind, site, data, e) ==
            [ kind |-> kind, site |-> site, data |-> data, endPos |-> e ]
    IN IF m = -1 THEN End("None", "find_start", NoData, Len(input))
       ELSE IF Len(h) < HEADER_REMAIN THEN End("None", "header", NoData, Len(input))
       ELSE IF Len(bb) < n THEN End("None", "bodies", NoData, Len(input))
       ELSE IF built.status # "ok"
          THEN End("ValidationError", "MircoBody", NoData, m + 12 + n)
       ELSE IF Len(chk) < CHECK_SIZE THEN End("None", "check", NoData, Len(input))
       ELSE IF ~ MircoHeadValid(HeadArgs(h))
          THEN End("ValidationError", "MircoHead", NoData, m + 16 + n)
       ELSE End("Frame", "return",
                [ header |-> HeadArgs(h), bodies |-> built.bodies,
                  check |-> CheckArgs(chk), info |-> HeaderInfo(h) ], m + 16 + n)

(* C19: chunking independence.  When the bytes of the stream are delivered *)
(* before any deadline elapses, the outcome of an invocation (the Frame or *)
(* the failure) and the number of bytes it consumes depend only on the     *)
(* stream and on where the invocation began: they are those of the         *)
(* delivery in which every read returns all it asked for, however the      *)
(* source splits the bytes into chunks and whatever empty reads come       *)
(* between the chunks.                                                     *)
C19_ChunkingIndependence ==
    \A i \in Calls :
        LET r == results[i]
            w == WholeDecode(r.startPos)
        IN Timely(r)
           => /\ r.kind = w.kind
              /\ r.site = w.site
              /\ r.data = w.data
              /\ r.endPos = w.endPos

\* an erratic source has delivered a frame of one record in time, its
\* header and its record each in more than one read, and the Frame has
\* been returned
C19_Witness ==
    \E i \in Calls :
        LET r == results[i]
        IN /\ source = "erratic"
           /\ Timely(r)
           /\ r.kind = "Frame"
           /\ Len(r.data.bodies) = 1
           /\ r.reads[1].split
           /\ r.reads[2].split
           /\ r.markerEnd - 4 > r.startPos

----------------------------------------------------------------------------
\* a marker occurrence of the stream some but not all of whose bytes were
\* consumed before offset p
SplitMarkerAt(p) == { m \in MarkerStarts : m < p /\ p < m + 4 }

(* C20: the search window belongs to one find_start.  An invocation starts *)
(* where the one before it stopped, with nothing of what that one consumed *)
(* (the bytes of a timed-out search are gone); find_start returns True     *)
(* only on four marker bytes all read, one after the other, within the     *)
(* same invocation, and on the first such four; a marker some of whose     *)
(* bytes went to a timed-out invocation is not matched by the next.        *)
C20_WindowIsLocal ==
    \A i \in Calls :
        LET r == results[i]
        IN /\ i >= 2 => r.startPos = results[i - 1].endPos
           /\ MarkerFound(r)
              => /\ r.markerEnd - 4 >= r.startPos
                 /\ SubSeq(input, r.markerEnd - 3, r.markerEnd) = START_SEQ
                 /\ r.markerEnd - 4 = FirstMarkerFrom(r.startPos)
           /\ ~ MarkerFound(r) => (IsTimeout(r) /\ r.data = NoData)
           /\ \A m \in SplitMarkerAt(r.startPos) : r.markerEnd # m + 4

\* a search timed out after the first bytes of a marker; the next
\* invocation read the rest of that marker without matching it and
\* returned the frame of the marker after it
C20_Witness ==
    \E i \in Calls :
        /\ i >= 2
        /\ IsTimeout(results[i - 1])
        /\ results[i - 1].endPos > results[i - 1].startPos
        /\ SplitMarkerAt(results[i].startPos) # {}
        /\ results[i].kind = "Frame"
        /\ results[i].markerEnd > results[i].startPos + 4

----------------------------------------------------------------------------
\* the bytes the reader thread has received so far
Received == SubSeq(input, 1, pos)

\* offsets (from 0) of the adjacent EE EE pairs of a byte sequence
Pairs(d) == { i \in 0..(Len(d) - 2) : d[i + 1] = 238 /\ d[i + 2] = 238 }

(* C21: in the reader thread, whenever a received chunk has been processed *)
(* (the thread is back at its read), the frames cut off so far, one after  *)
(* the other, followed by what is left in all_data are exactly the bytes   *)
(* received, in order; every frame cut off ends with EE EE and has no      *)
(* EE EE pair before that; and what is left in all_data has no EE EE pair. *)
C21_ReaderSegmentation ==
    thread = "read"
    => /\ Flatten(frames) \o all_data = Received
       /\ \A k \in 1..Len(frames) :
             /\ Len(frames[k]) >= 2
             /\ Pairs(frames[k]) = {Len(frames[k]) - 2}
       /\ Pairs(all_data) = {}

\* the thread has processed its chunks: it has cut off a two-byte frame
\* EE EE, then a whole frame of 62 bytes and queued that frame's 20 points,
\* and a non-empty rest remains in all_data
C21_Witness ==
    /\ thread = "read"
    /\ Len(frames) >= 2
    /\ frames[1] = <<238, 238>>
    /\ \E k \in 1..Len(frames) : Len(frames[k]) = 62
    /\ Len(data_queue) = 20
    /\ all_data # <<>>

====
